---- MODULE Spec2Model ----
(***************************************************************************)
(* Model of the xdg-user-macros crate (src/src/lib.rs): the four macros    *)
(* xdg_config_home!, xdg_cache_home!, xdg_data_home! and xdg_runtime_dir!  *)
(* over a process environment, a home-directory provider and a user id.    *)
(*                                                                         *)
(* Strings (OsString, PathBuf contents) are sequences of one-character     *)
(* strings, so that PathBuf::push, format! and PathBuf equality are        *)
(* computed on the bytes the way the standard library computes them.       *)
(***************************************************************************)
EXTENDS Integers, Sequences, FiniteSets, TLC

VARIABLES
    env,          \* the process environment: variable name -> Option<OsString>
    home,         \* what std::env::home_dir() returns: Option<PathBuf>
    uid,          \* what libc::getuid() returns
    resolver,     \* the macro expanded by the last call ("none" before any)
    segments,     \* the arguments ($x, ...) of the last call
    outcome,      \* "none" | "ok" (a PathBuf was returned) | "panic" (unwrap on None)
    path,         \* the PathBuf returned by the last call (<<>> if it returned none)
    homeQueried,  \* the last call evaluated home_dir()
    uidQueried,   \* the last call evaluated getuid()
    first,        \* observer: the first call the process made, with its result
    afterFirst    \* observer: the last call was made after the recorded first call

vars == <<env, home, uid, resolver, segments, outcome, path, homeQueried, uidQueried,
          first, afterFirst>>

-----------------------------------------------------------------------------
(* Bounds and input domains *)

MaxSegs == 2

None == [some |-> FALSE, val |-> <<>>]
Some(v) == [some |-> TRUE, val |-> v]

VarNames == {"XDG_CONFIG_HOME", "XDG_CACHE_HOME", "XDG_DATA_HOME", "XDG_RUNTIME_DIR"}

\* absent, present and empty, present and relative ("rel"), present and absolute ("/x")
OverrideValues == {None, Some(<<>>), Some(<<"r", "e", "l">>), Some(<<"/", "x">>)}

\* unresolvable, "/home/alice", or "/"
alice == <<"/", "h", "o", "m", "e", "/", "a", "l", "i", "c", "e">>
HomeValues == {None, Some(alice), Some(<<"/">>)}

UidValues == {0, 1000}

\* "myapp" and the absolute "/etc"
myapp == <<"m", "y", "a", "p", "p">>
SegValues == {myapp, <<"/", "e", "t", "c">>}

SegLists == UNION {[1..n -> SegValues] : n \in 0..MaxSegs}

\* the record of the first call: not kept, or kept and not made yet
Untracked == [resolver |-> "untracked", segments |-> <<>>, outcome |-> "none", path |-> <<>>]
NoCall == [resolver |-> "none", segments |-> <<>>, outcome |-> "none", path |-> <<>>]

\* the environments of the runs that keep the first call: config and cache
\* share one value, data and runtime another
PairedEnvs ==
    {[n \in VarNames |-> IF n \in {"XDG_CONFIG_HOME", "XDG_CACHE_HOME"} THEN v ELSE w] :
        v \in OverrideValues, w \in OverrideValues}

-----------------------------------------------------------------------------
(* The standard-library operations the macros expand to *)

\* env::var_os(name)
var_os_nonempty(name) == IF env[name].some /\ env[name].val # <<>> THEN env[name] ELSE None
var_os(name) == env[name]

\* PathBuf::from(val): the bytes are taken as they are
PathBuf_from(val) == val

\* Path::is_absolute on Unix: the path has a root
is_absolute(p) == Len(p) > 0 /\ p[1] = "/"

\* PathBuf::push(seg): an absolute seg replaces the buffer; otherwise a
\* separator is added when the buffer is non-empty and does not end in one
push_no_replace(p, seg) ==
    IF Len(p) > 0 /\ p[Len(p)] # "/" THEN p \o <<"/">> \o seg ELSE p \o seg
push(p, seg) ==
    LET need_sep == Len(p) > 0 /\ p[Len(p)] # "/"
    IN  IF is_absolute(seg) THEN seg
        ELSE IF need_sep THEN p \o <<"/">> \o seg
        ELSE p \o seg

\* $( path.push($x); )* : the pushes in argument order
RECURSIVE PushAll_reversed(_, _)
PushAll_reversed(p, segs) ==
    IF segs = <<>> THEN p
    ELSE PushAll_reversed(push(p, segs[Len(segs)]), SubSeq(segs, 1, Len(segs) - 1))
RECURSIVE PushAll(_, _)
PushAll(p, segs) ==
    IF segs = <<>> THEN p
    ELSE PushAll(push(p, Head(segs)), Tail(segs))

\* Display of an unsigned integer: its decimal digits
Digits == <<"0", "1", "2", "3", "4", "5", "6", "7", "8", "9">>
RECURSIVE ToDecimal(_)
ToDecimal(n) ==
    IF n < 10 THEN <<Digits[n + 1]>>
    ELSE ToDecimal(n \div 10) \o <<Digits[(n % 10) + 1]>>

\* format!("{}/{}", run_dir, uid) with run_dir = "/run/user"
run_dir == <<"/", "r", "u", "n", "/", "u", "s", "e", "r">>
format_run_dir_no_sep(u) == run_dir \o ToDecimal(u)
format_run_dir(u) == run_dir \o <<"/">> \o ToDecimal(u)

dot_config == <<".", "c", "o", "n", "f", "i", "g">>
dot_cache == <<".", "c", "a", "c", "h", "e">>
dot_local == <<".", "l", "o", "c", "a", "l">>
dot_local_share == <<".", "l", "o", "c", "a", "l", "/", "s", "h", "a", "r", "e">>

\* Path::components on Unix, as PathBuf equality (assert_eq!) compares paths:
\* the root, then the pieces between separators; empty pieces and "." pieces
\* are skipped, except a "." that starts a path without a root
RECURSIVE Pieces(_, _)
Pieces(p, cur) ==
    IF p = <<>> THEN <<cur>>
    ELSE IF Head(p) = "/" THEN <<cur>> \o Pieces(Tail(p), <<>>)
    ELSE Pieces(Tail(p), Append(cur, Head(p)))

RECURSIVE DropSkipped(_)
DropSkipped(ps) ==
    IF ps = <<>> THEN <<>>
    ELSE IF Head(ps) = <<>> \/ Head(ps) = <<".">> THEN DropSkipped(Tail(ps))
    ELSE <<Head(ps)>> \o DropSkipped(Tail(ps))

Components(p) ==
    LET ps == Pieces(p, <<>>)
        cur_dir == ~is_absolute(p) /\ Head(ps) = <<".">>
    IN  [root |-> is_absolute(p),
         cur_dir |-> cur_dir,
         names |-> DropSkipped(ps)]

PathEq(p, q) == Components(p) = Components(q)

-----------------------------------------------------------------------------
(* The state after process start: any environment, no call made yet *)

NoResult ==
    /\ resolver = "none"
    /\ segments = <<>>
    /\ outcome = "none"
    /\ path = <<>>
    /\ homeQueried = FALSE
    /\ uidQueried = FALSE

Init ==
    /\ env \in [VarNames -> OverrideValues]
    /\ home \in HomeValues
    /\ uid \in UidValues
    /\ NoResult
    /\ first = Untracked
    /\ afterFirst = FALSE

\* the same process, observed with the record of its first call
InitHist ==
    /\ env \in PairedEnvs
    /\ home \in HomeValues
    /\ uid = 1000
    /\ NoResult
    /\ first = NoCall
    /\ afterFirst = FALSE

\* what a call leaves behind: its result, and the record of the first call
Returned(name, segs, out, p, hq, uq) ==
    /\ resolver' = name
    /\ segments' = segs
    /\ outcome' = out
    /\ path' = p
    /\ homeQueried' = hq
    /\ uidQueried' = uq
    /\ first' = IF first = NoCall
                THEN [resolver |-> name, segments |-> segs, outcome |-> out, path |-> p]
                ELSE first
    /\ afterFirst' = (first \notin {NoCall, Untracked})
    /\ UNCHANGED <<env, home, uid>>

-----------------------------------------------------------------------------
(* The four macros; segs is the argument list $($x),* of the invocation *)

\* home_dir()
home_dir == home

\* unsafe { getuid() }
getuid == uid

\* a config resolver that resolves the home directory before looking at the override
xdg_config_home_eager(segs) ==
    LET val == var_os("XDG_CONFIG_HOME")
    IN  IF ~home_dir.some
        THEN Returned("config", segs, "panic", <<>>, TRUE, FALSE)
        ELSE IF val.some
        THEN Returned("config", segs, "ok", PushAll(PathBuf_from(val.val), segs), TRUE, FALSE)
        ELSE Returned("config", segs, "ok",
                      PushAll(push(home_dir.val, dot_config), segs), TRUE, FALSE)
xdg_config_home(segs) ==
    LET val == var_os("XDG_CONFIG_HOME")
    IN  IF val.some
        THEN Returned("config", segs, "ok", PushAll(PathBuf_from(val.val), segs), FALSE, FALSE)
        ELSE IF ~home_dir.some
        THEN Returned("config", segs, "panic", <<>>, TRUE, FALSE)
        ELSE Returned("config", segs, "ok",
                      PushAll(push(home_dir.val, dot_config), segs), TRUE, FALSE)

\* a resolver that keeps the buffer of the previous call instead of starting afresh
xdg_cache_home_stale(segs) ==
    LET val == var_os("XDG_CACHE_HOME")
    IN  IF outcome = "ok"
        THEN Returned("cache", segs, "ok", PushAll(path, segs), FALSE, FALSE)
        ELSE IF val.some
        THEN Returned("cache", segs, "ok", PushAll(PathBuf_from(val.val), segs), FALSE, FALSE)
        ELSE IF ~home_dir.some
        THEN Returned("cache", segs, "panic", <<>>, TRUE, FALSE)
        ELSE Returned("cache", segs, "ok",
                      PushAll(push(home_dir.val, dot_cache), segs), TRUE, FALSE)
xdg_cache_home(segs) ==
    LET val == var_os("XDG_CACHE_HOME")
    IN  IF val.some
        THEN Returned("cache", segs, "ok", PushAll(PathBuf_from(val.val), segs), FALSE, FALSE)
        ELSE IF ~home_dir.some
        THEN Returned("cache", segs, "panic", <<>>, TRUE, FALSE)
        ELSE Returned("cache", segs, "ok",
                      PushAll(push(home_dir.val, dot_cache), segs), TRUE, FALSE)

\* a data resolver that falls back to <home>/.local
xdg_data_home_local(segs) ==
    LET val == var_os("XDG_DATA_HOME")
    IN  IF val.some
        THEN Returned("data", segs, "ok", PushAll(PathBuf_from(val.val), segs), FALSE, FALSE)
        ELSE IF ~home_dir.some
        THEN Returned("data", segs, "panic", <<>>, TRUE, FALSE)
        ELSE Returned("data", segs, "ok",
                      PushAll(push(home_dir.val, dot_local), segs), TRUE, FALSE)
xdg_data_home(segs) ==
    LET val == var_os("XDG_DATA_HOME")
    IN  IF val.some
        THEN Returned("data", segs, "ok", PushAll(PathBuf_from(val.val), segs), FALSE, FALSE)
        ELSE IF ~home_dir.some
        THEN Returned("data", segs, "panic", <<>>, TRUE, FALSE)
        ELSE Returned("data", segs, "ok",
                      PushAll(push(home_dir.val, dot_local_share), segs), TRUE, FALSE)

\* a runtime resolver that exports the default it computed
xdg_runtime_dir_setenv(segs) ==
    LET val == var_os("XDG_RUNTIME_DIR")
        dflt == PathBuf_from(format_run_dir(getuid))
    IN  /\ resolver' = "runtime"
        /\ segments' = segs
        /\ outcome' = "ok"
        /\ path' = PushAll(IF val.some THEN PathBuf_from(val.val) ELSE dflt, segs)
        /\ homeQueried' = FALSE
        /\ uidQueried' = ~val.some
        /\ first' = IF first = NoCall
                    THEN [resolver |-> "runtime", segments |-> segs,
                          outcome |-> "ok", path |-> path']
                    ELSE first
        /\ afterFirst' = (first \notin {NoCall, Untracked})
        /\ env' = IF val.some THEN env
                  ELSE [env EXCEPT !["XDG_RUNTIME_DIR"] = Some(dflt)]
        /\ UNCHANGED <<home, uid>>
xdg_runtime_dir(segs) ==
    LET val == var_os("XDG_RUNTIME_DIR")
    IN  IF val.some
        THEN Returned("runtime", segs, "ok", PushAll(PathBuf_from(val.val), segs), FALSE, FALSE)
        ELSE Returned("runtime", segs, "ok",
                      PushAll(PathBuf_from(format_run_dir(getuid)), segs), FALSE, TRUE)

Next ==
    \/ \E segs \in SegLists : xdg_config_home(segs)
    \/ \E segs \in SegLists : xdg_cache_home(segs)
    \/ \E segs \in SegLists : xdg_data_home(segs)
    \/ \E segs \in SegLists : xdg_runtime_dir(segs)

Spec == Init /\ [][Next]_vars

SpecHist == InitHist /\ [][Next]_vars

TypeOK ==
    /\ resolver \in {"none", "config", "cache", "data", "runtime"}
    /\ outcome \in {"none", "ok", "panic"}
    /\ segments \in SegLists

-----------------------------------------------------------------------------
(* Vocabulary of the properties *)

Called == resolver # "none"

HomeResolvers == {"config", "cache", "data"}

OwnVar(r) ==
    CASE r = "config" -> "XDG_CONFIG_HOME"
      [] r = "cache" -> "XDG_CACHE_HOME"
      [] r = "data" -> "XDG_DATA_HOME"
      [] OTHER -> "XDG_RUNTIME_DIR"

\* the override of the resolver called last
Own == env[OwnVar(resolver)]

HomeSuffix(r) ==
    CASE r = "config" -> dot_config
      [] r = "cache" -> dot_cache
      [] OTHER -> dot_local_share

\* the parts written one after the other with a separator between them
\* (an empty part contributes nothing)
RECURSIVE JoinWithSlash(_)
JoinWithSlash(parts) ==
    IF parts = <<>> THEN <<>>
    ELSE LET rest == JoinWithSlash(Tail(parts))
         IN  IF Head(parts) = <<>> THEN rest
             ELSE IF rest = <<>> THEN Head(parts)
             ELSE Head(parts) \o <<"/">> \o rest

\* the position of the last absolute segment, 0 if there is none
LastAbsolute(segs) ==
    LET abs == {i \in 1..Len(segs) : is_absolute(segs[i])}
    IN  IF abs = {} THEN 0 ELSE CHOOSE i \in abs : \A j \in abs : j <= i

\* base with the segments appended in order: base/seg1/seg2/..., the path
\* starting again at an absolute segment
Appended(base, segs) ==
    LET k == LastAbsolute(segs)
    IN  IF k = 0 THEN JoinWithSlash(<<base>> \o segs)
        ELSE JoinWithSlash(SubSeq(segs, k, Len(segs)))

\* the components the segments contribute, in the order of the segments
RECURSIVE SegmentNames(_)
SegmentNames(segs) ==
    IF segs = <<>> THEN <<>>
    ELSE Components(Head(segs)).names \o SegmentNames(Tail(segs))

IsSuffix(s, t) ==
    /\ Len(s) <= Len(t)
    /\ SubSeq(t, Len(t) - Len(s) + 1, Len(t)) = s

-----------------------------------------------------------------------------
(* Properties of the resolvers *)

slash_x == <<"/", "x">>
etc == <<"/", "e", "t", "c">>

\* C1: a resolver whose own override variable is present with value V returns
\* V with the segments appended in order, whatever the home directory (also
\* unresolvable) and the user id are, and evaluates neither home_dir() nor
\* getuid().
C1_OverrideWins ==
    (Called /\ Own.some) =>
        /\ outcome = "ok"
        /\ ~homeQueried
        /\ ~uidQueried
        /\ PathEq(path, Appended(Own.val, segments))
        /\ (Own.val = slash_x /\ segments = <<myapp, myapp>>)
              => path = slash_x \o <<"/">> \o myapp \o <<"/">> \o myapp

\* the config resolver returned /x/myapp from XDG_CONFIG_HOME=/x with no home directory
C1_Witness ==
    /\ resolver = "config"
    /\ env["XDG_CONFIG_HOME"] = Some(slash_x)
    /\ ~home.some
    /\ segments = <<myapp>>
    /\ outcome = "ok"
    /\ path = slash_x \o <<"/">> \o myapp

\* C2: the config, cache and data resolvers, with their override absent and
\* the home directory resolving to H, return H/.config, H/.cache and
\* H/.local/share followed by the segments in order (home /home/alice and
\* segments ["myapp"] give /home/alice/.local/share/myapp for data).
C2_DefaultUnderHome ==
    (Called /\ resolver \in HomeResolvers /\ ~Own.some /\ home.some) =>
        /\ outcome = "ok"
        /\ PathEq(path, Appended(home.val \o <<"/">> \o HomeSuffix(resolver), segments))
        /\ (resolver = "data" /\ home.val = alice /\ segments = <<myapp>>)
              => path = alice \o <<"/">> \o dot_local_share \o <<"/">> \o myapp
        /\ (resolver = "config" /\ home.val = alice /\ segments = <<>>)
              => path = alice \o <<"/">> \o dot_config
        /\ (resolver = "cache" /\ home.val = alice /\ segments = <<>>)
              => path = alice \o <<"/">> \o dot_cache

\* the data resolver returned /home/alice/.local/share/myapp
C2_Witness ==
    /\ resolver = "data"
    /\ ~env["XDG_DATA_HOME"].some
    /\ home = Some(alice)
    /\ segments = <<myapp>>
    /\ outcome = "ok"
    /\ path = alice \o <<"/">> \o dot_local_share \o <<"/">> \o myapp

\* C3: the runtime resolver, with XDG_RUNTIME_DIR absent and user id U,
\* returns /run/user/U followed by the segments in order, whether or not the
\* home directory is resolvable, and never evaluates home_dir().
C3_RuntimeDefault ==
    (resolver = "runtime" /\ ~Own.some) =>
        /\ outcome = "ok"
        /\ ~homeQueried
        /\ uidQueried
        /\ PathEq(path, Appended(run_dir \o <<"/">> \o ToDecimal(uid), segments))
        /\ (uid = 1000 /\ segments = <<>>)
              => path = <<"/", "r", "u", "n", "/", "u", "s", "e", "r", "/", "1", "0", "0", "0">>
        /\ (uid = 0 /\ segments = <<myapp>>)
              => path = <<"/", "r", "u", "n", "/", "u", "s", "e", "r", "/", "0", "/">> \o myapp

\* the runtime resolver returned /run/user/1000 with no home directory
C3_Witness ==
    /\ resolver = "runtime"
    /\ ~env["XDG_RUNTIME_DIR"].some
    /\ ~home.some
    /\ uid = 1000
    /\ segments = <<>>
    /\ outcome = "ok"
    /\ path = <<"/", "r", "u", "n", "/", "u", "s", "e", "r", "/", "1", "0", "0", "0">>

\* C4: every path a resolver returns is absolute, for every override value
\* (relative and empty ones too) and every list of segments.
C4_AlwaysAbsolute == (outcome = "ok") => is_absolute(path)

\* C5: the config, cache and data resolvers, with their override absent and
\* the home directory unresolvable, end in the failure value
\* HomeDirectoryUnresolved given to the caller: no panic, no path.
C5_FailureIsAValue ==
    (Called /\ resolver \in HomeResolvers /\ ~Own.some /\ ~home.some) =>
        outcome = "HomeDirectoryUnresolved"

\* C6: no call of a resolver changes the environment: the four override
\* variables, the home directory and the user id are after the call what
\* they were before it.
C6_EnvironmentUnchanged == [][env' = env /\ home' = home /\ uid' = uid]_vars

\* the runtime resolver computed its default and XDG_RUNTIME_DIR is still absent
C6_Witness ==
    /\ resolver = "runtime"
    /\ uidQueried
    /\ outcome = "ok"
    /\ ~env["XDG_RUNTIME_DIR"].some

\* C9: an override variable present with the empty value is set: the resolver
\* takes the empty value as the base, so that the result is the segments
\* joined, and does not fall back to the home directory or /run/user/<uid>.
C9_EmptyOverrideIsSet ==
    (Called /\ Own = Some(<<>>)) =>
        /\ outcome = "ok"
        /\ ~homeQueried
        /\ ~uidQueried
        /\ path = Appended(<<>>, segments)
        /\ segments = <<>> => path = <<>>
        /\ segments = <<myapp, myapp>> => path = myapp \o <<"/">> \o myapp

\* the config resolver returned the relative path myapp from an empty
\* XDG_CONFIG_HOME although the home directory resolves
C9_Witness ==
    /\ resolver = "config"
    /\ env["XDG_CONFIG_HOME"] = Some(<<>>)
    /\ home = Some(alice)
    /\ segments = <<myapp>>
    /\ outcome = "ok"
    /\ path = myapp

\* C10: an absolute segment replaces the path built so far: the returned
\* path is that segment followed by the later segments only; the base and
\* the earlier segments are not in it.
C10_AbsoluteSegmentReplaces ==
    (outcome = "ok") =>
        /\ \A i \in 1..Len(segments) :
              is_absolute(segments[i]) =>
                  path = PushAll(segments[i], SubSeq(segments, i + 1, Len(segments)))
        /\ LET k == LastAbsolute(segments)
           IN  k > 0 => path = JoinWithSlash(SubSeq(segments, k, Len(segments)))
        /\ segments = <<myapp, etc>> => path = etc
        /\ segments = <<etc, myapp>> => path = etc \o <<"/">> \o myapp

\* the config resolver returned /etc for the segments myapp, /etc under XDG_CONFIG_HOME=/x
C10_Witness ==
    /\ resolver = "config"
    /\ env["XDG_CONFIG_HOME"] = Some(slash_x)
    /\ segments = <<myapp, etc>>
    /\ outcome = "ok"
    /\ path = etc

-----------------------------------------------------------------------------
(* Properties over two calls of one process (SpecHist) *)

\* C7: a resolver is deterministic and keeps no state: a call with the
\* resolver and the segments of the first call returns what the first call
\* returned (or fails as it did), whichever calls were made in between.
C7_Deterministic ==
    (first.resolver = resolver /\ first.segments = segments) =>
        /\ first.outcome = outcome
        /\ first.path = path

\* the cache resolver, called a second time with ["myapp"], returned a path again
C7_Witness ==
    /\ afterFirst
    /\ first.resolver = "cache"
    /\ resolver = "cache"
    /\ first.segments = <<myapp>>
    /\ segments = <<myapp>>
    /\ outcome = "ok"

\* C8: appending is associative and keeps the order: a call with the
\* segments s followed by b returns the result of the call with s with b
\* pushed onto it, and the components the segments contribute are the last
\* components of the result, in the order of the segments.
C8_AppendAssociative ==
    /\ (/\ first.resolver = resolver
        /\ outcome = "ok"
        /\ Len(segments) >= 1
        /\ first.segments = SubSeq(segments, 1, Len(segments) - 1))
       => /\ first.outcome = "ok"
          /\ path = push(first.path, segments[Len(segments)])
    /\ (outcome = "ok")
       => LET k == LastAbsolute(segments)
              kept == IF k = 0 THEN segments ELSE SubSeq(segments, k, Len(segments))
          IN  IsSuffix(SegmentNames(kept), Components(path).names)

\* the data resolver returned P for ["myapp"] and then P/myapp for ["myapp", "myapp"]
C8_Witness ==
    /\ afterFirst
    /\ first.resolver = "data"
    /\ resolver = "data"
    /\ first.segments = <<myapp>>
    /\ segments = <<myapp, myapp>>
    /\ outcome = "ok"
    /\ path = first.path \o <<"/">> \o myapp

====
